---- MODULE Spec2Model ----
(***************************************************************************)
(* A model of tracer.py: the tracing decorator trace_function_call (the    *)
(* wrapper `tracer` and its call-stack classification), the class          *)
(* decorator trace_class_methods and the metaclass of get_tracer_metaclass.*)
(*                                                                         *)
(* Representation.  Names the code inspects with startswith() or compares  *)
(* (function names, attribute names) are sequences of one-character        *)
(* strings, so that a prefix test is a test on the characters.  A file     *)
(* name is the sequence of its path segments.  Wall-clock times are whole  *)
(* numbers of ticks, Scale ticks to the second, so that a time can have a  *)
(* fractional part.  A log line is a record of the parts the format string *)
(* puts together.                                                          *)
(***************************************************************************)
EXTENDS Integers, Sequences, FiniteSets, TLC

VARIABLES
    pc,           \* "idle": no call in flight; "returned": a call has come back
    wrapper,      \* the wrap layers of the function under trace (a sequence of
                  \* trace configurations, innermost first; <<>>: not wrapped)
    clock,        \* what time.time() reads at the start and at the finish of a call
    inv,          \* the call made: function, arguments, call stack, failing step
    observed,     \* what the caller of the latest operation saw
    targetCalls,  \* the argument lists the original function was invoked with
    log,          \* the lines the call gave to the logger, in order
    classes,      \* the classes defined so far, with their own attributes
    applied       \* per class, how many times class_decorator ran on it

vars == <<pc, wrapper, clock, inv, observed, targetCalls, log, classes, applied>>

----------------------------------------------------------------------------
(* Bounds of the model *)

\* the longest call stack above the wrapper (callers of the traced function)
MaxStack == 2
\* ticks per second: the resolution of the clock
Scale == 3
\* the latest clock reading, in ticks
MaxTick == 8
\* the most times class_decorator is applied to one class
MaxWraps == 2

----------------------------------------------------------------------------
(* Strings as sequences of characters *)

StartsWith(s, prefix) ==
    /\ Len(s) >= Len(prefix)
    /\ SubSeq(s, 1, Len(prefix)) = prefix

EmptyName == <<>>
TestPrefix == <<"t", "e", "s", "t", "_">>
DunderPrefix == <<"_", "_">>
N_tracer == <<"t", "r", "a", "c", "e", "r">>
N_test_a == <<"t", "e", "s", "t", "_", "a">>
N_helper == <<"h", "e", "l", "p", "e", "r">>
N_run_cleanups == <<"_", "r", "u", "n", "_", "c", "l", "e", "a", "n", "u", "p", "s">>
N_run_setup == <<"_", "r", "u", "n", "_", "s", "e", "t", "u", "p">>
N_run_user == <<"_", "r", "u", "n", "_", "u", "s", "e", "r">>
N_cleanup == <<"c", "l", "e", "a", "n", "u", "p">>
N_setup == <<"s", "e", "t", "u", "p">>
N_run == <<"r", "u", "n">>
N_init == <<"_", "_", "i", "n", "i", "t", "_", "_">>
N_make == <<"m", "a", "k", "e">>

----------------------------------------------------------------------------
(* Trigger constants and trace options *)

TRIGGER_NEVER == "never"
TRIGGER_ALWAYS == "always"
TRIGGER_ON_FAILURE == "on_failure"
VALID_TRIGGERS == {TRIGGER_NEVER, TRIGGER_ON_FAILURE, TRIGGER_ALWAYS}

\* the options a wrapper keeps in its closure
TraceOptions(desc, source_class, dump_args, call_stack) ==
    [desc |-> desc, source_class |-> source_class,
     dump_args |-> dump_args, call_stack |-> call_stack]

----------------------------------------------------------------------------
(* Outcomes of a call, and the exception classes the wrapper tells apart *)

Returned(v) == [kind |-> "return", value |-> v]
Raised(etype, msg) == [kind |-> "raise", etype |-> etype, msg |-> msg]

\* TestSkipped is a subclass of Exception; KeyboardInterrupt derives from
\* BaseException only.
ExceptionClasses == {"TestSkipped", "AssertionError", "KeyboardInterrupt"}
IsTestSkipped(etype) == etype = "TestSkipped"
IsException(etype) == etype \in {"TestSkipped", "AssertionError"}

\* str(exception): the message the exception was built with
Str(exc) == exc.msg

----------------------------------------------------------------------------
(* Call frames: what inspect.stack() gives for each frame *)

Frame(filename, function, lineno) ==
    [filename |-> filename, function |-> function, lineno |-> lineno]

TracerFile == <<"opt", "whelk", "lib", "tracer.py">>
\* the wrapper's own frame while it inspects the stack
TracerFrame == Frame(TracerFile, N_tracer, 104)
\* the frame of an enclosing wrapper, waiting in its call of the traced function
TracerCallFrame == Frame(TracerFile, N_tracer, 75)

CallerFrames ==
    { TracerCallFrame,
      Frame(<<"opt", "whelk", "tests", "test_a.py">>, N_test_a, 10),
      Frame(<<"home", "lib", "util.py">>, N_helper, 20),
      Frame(<<"usr", "nose", "case.py">>, N_run_cleanups, 30),
      Frame(<<"usr", "nose", "case.py">>, N_run_setup, 31),
      Frame(<<"usr", "nose", "case.py">>, N_run_user, 32) }

\* the call stacks above the wrapper, innermost caller first
CallerStacks == UNION { [1..n -> CallerFrames] : n \in 1..MaxStack }

\* os.path.basename(filename)
Basename(filename) == filename[Len(filename)]

NoSource == [path |-> <<>>, lineno |-> 0]

RECURSIVE AfterWhelk(_)
\* f"{filename} [{lineno}]".partition("whelk/")[2], on the path segments:
\* what follows the first directory named whelk, nothing when there is none
AfterWhelk(filename) ==
    IF filename = <<>> THEN <<>>
    ELSE IF Head(filename) = "whelk" /\ Len(filename) > 1 THEN Tail(filename)
    ELSE AfterWhelk(Tail(filename))

Source(caller) ==
    IF AfterWhelk(caller.filename) = <<>> THEN NoSource
    ELSE [path |-> AfterWhelk(caller.filename), lineno |-> caller.lineno]

----------------------------------------------------------------------------
(* The wrapper: start of the call, the call of the decorated function *)

None == "None"

\* int(x) of a time of x ticks, in whole seconds: truncation toward zero
int(x) == IF x >= 0 THEN x \div Scale ELSE -((-x) \div Scale)

\* int(finish_time - stats['start']): stats['start'] is already whole seconds
Duration(start, finish_time) == int(finish_time - start * Scale)

InitialStats(function_name, start_time, options) ==
    [function_name |-> function_name,
     called_by |-> EmptyName,
     start |-> int(start_time),
     duration |-> 0,
     traceback |-> FALSE,
     skipped |-> FALSE,
     msg |-> "",
     test |-> EmptyName,
     source |-> NoSource,
     source_class |-> options.source_class,
     desc |-> options.desc]

\* mutant: the two except clauses in the other order
ExceptClause_swapped(outcome) ==
    IF outcome.kind # "raise" THEN "none"
    ELSE IF IsException(outcome.etype) THEN "Exception"
    ELSE "none"

\* which except clause of the try statement takes the outcome of the call
ExceptClause(outcome) ==
    IF outcome.kind # "raise" THEN "none"
    ELSE IF IsTestSkipped(outcome.etype) THEN "TestSkipped"
    ELSE IF IsException(outcome.etype) THEN "Exception"
    ELSE "none"

\* logger.info(f"Skipped {function_name} {skip_exception}")
SkippedLine(function_name, skip_exception) ==
    [level |-> "info", kind |-> "Skipped",
     function_name |-> function_name, msg |-> Str(skip_exception)]

\* the try statement around the call, up to its finally clause
TryTarget(stats, function_name, outcome) ==
    CASE ExceptClause(outcome) = "TestSkipped" ->
            [stats |-> [stats EXCEPT !.msg = Str(outcome), !.skipped = TRUE],
             lines |-> <<SkippedLine(function_name, outcome)>>]
      [] ExceptClause(outcome) = "Exception" ->
            [stats |-> [stats EXCEPT !.traceback = TRUE, !.msg = Str(outcome)],
             lines |-> <<>>]
      [] OTHER ->
            [stats |-> stats, lines |-> <<>>]

\* result: None unless the call came back
Result(outcome) == IF outcome.kind = "return" THEN outcome.value ELSE None

\* mutant: an exception of the call is swallowed and result returned
CallerSees_swallow(outcome, result) == Returned(result)

\* what leaves the wrapper: the exception in flight (raise, or one no clause
\* took, after the finally clause), else return result
CallerSees(outcome, result) ==
    IF outcome.kind = "raise" THEN outcome ELSE Returned(result)

----------------------------------------------------------------------------
(* The finishing phase: classification by the call stack *)

\* ":".join((os.path.basename(caller.filename), caller.function, str(caller.lineno)))
CallString(caller) == <<Basename(caller.filename), caller.function, caller.lineno>>

\* mutant: the wrapper's frames are listed too
AppendCallString_all(call_stack, caller, call_strings) ==
    IF call_stack THEN Append(call_strings, CallString(caller)) ELSE call_strings

AppendCallString(call_stack, caller, call_strings) ==
    IF call_stack /\ caller.function # N_tracer
    THEN Append(call_strings, CallString(caller))
    ELSE call_strings

\* mutant: the caller is looked for one frame too far out
CalledBy_off(call_index, caller, called_by) ==
    IF call_index = 2 THEN caller.function ELSE called_by

CalledBy(call_index, caller, called_by) ==
    IF call_index = 1 THEN caller.function ELSE called_by

\* mutant: the two tags exchanged
TestTag_swapped(call_index) ==
    IF call_index = 1 THEN "test_subfunction" ELSE "test_function"

TestTag(call_index) ==
    IF call_index = 1 THEN "test_function" ELSE "test_subfunction"

CleanupTag(called_by) ==
    IF called_by = N_run_user THEN "cleanup_function" ELSE "cleanup_subfunction"

SetupTag(called_by) ==
    IF called_by = N_run_setup THEN "setup_function" ELSE "setup_subfunction"

RECURSIVE Walk(_, _, _, _)
\* the loop over inspect.stack(), from call_index on; w holds tag, stats and
\* call_strings as the loop has left them
Walk(stack, call_index, call_stack, w) ==
    IF call_index >= Len(stack) THEN w
    ELSE
      LET caller == stack[call_index + 1]
          strings == AppendCallString(call_stack, caller, w.call_strings)
          called_by == CalledBy(call_index, caller, w.stats.called_by)
          stats == [w.stats EXCEPT !.called_by = called_by]
      IN  IF StartsWith(caller.function, TestPrefix) THEN
              [tag |-> TestTag(call_index),
               stats |-> [stats EXCEPT !.test = caller.function,
                                       !.source = Source(caller)],
               call_strings |-> strings]
          ELSE IF caller.function = N_run_cleanups THEN
              [tag |-> CleanupTag(called_by),
               stats |-> [stats EXCEPT !.test = N_cleanup],
               call_strings |-> strings]
          ELSE IF caller.function = N_run_setup THEN
              [tag |-> SetupTag(called_by),
               stats |-> [stats EXCEPT !.test = N_setup],
               call_strings |-> strings]
          ELSE Walk(stack, call_index + 1, call_stack,
                    [tag |-> w.tag, stats |-> stats, call_strings |-> strings])

\* whether the finishing phase reaches the loop over the stack
Walks(stats, function_name) ==
    ~stats.skipped /\ ~StartsWith(function_name, TestPrefix)

\* the tag, the stats and the call strings after the classification
Classify(stats, function_name, stack, call_stack) ==
    IF stats.skipped THEN
        [tag |-> "skipped_test", stats |-> stats, call_strings |-> <<>>]
    ELSE IF StartsWith(function_name, TestPrefix) THEN
        [tag |-> "test", stats |-> stats, call_strings |-> <<>>]
    ELSE Walk(stack, 0, call_stack,
              [tag |-> "other_function", stats |-> stats, call_strings |-> <<>>])

----------------------------------------------------------------------------
(* The finishing phase: the log line, and the guard around the phase *)

\* mutant: on_failure is not asked for before dumping after a traceback
DumpArgs_anyFailure(dump_args, tag, stats) ==
    \/ dump_args = TRIGGER_ALWAYS
    \/ tag = "test"
    \/ (stats.traceback /\ ~stats.skipped)

\* whether " args=... kwargs=..." is put on the line
DumpArgs(dump_args, tag, stats) ==
    \/ dump_args = TRIGGER_ALWAYS
    \/ tag = "test"
    \/ (dump_args = TRIGGER_ON_FAILURE /\ stats.traceback /\ ~stats.skipped)

Severity(tag, stats) ==
    IF tag = "test" /\ stats.traceback THEN "error" ELSE "debug"

\* f"TRACER <{tag}>{json.dumps(stats)}</{tag}>{stack_string}{function_args}";
\* a suffix is <<>> when it is the empty string, else holds what it prints
LogMessage(tag, stats, stack_string, function_args) ==
    [level |-> Severity(tag, stats), kind |-> "TRACER", tag |-> tag,
     stats |-> stats, stack_string |-> stack_string,
     function_args |-> function_args]

\* logger.warning(f"TRACER Failed to save call trace - {trace_exception}")
FailedLine(trace_exception) ==
    [level |-> "warning", kind |-> "TRACER Failed to save call trace",
     msg |-> trace_exception]

\* The steps of the finishing phase that can raise: inspect.stack() and the
\* repr() of the arguments in the f-string; fail names the step that raises
\* when the phase comes to it.
FailSteps == {"none", "inspect.stack", "repr(args)"}

\* the body of the inner try: either the line to log or the exception raised
FinishingPhase(options, stats0, function_name, args, stack, finish_time, fail) ==
    LET stats1 == [stats0 EXCEPT !.duration = Duration(stats0.start, finish_time)]
    IN  IF Walks(stats1, function_name) /\ fail = "inspect.stack" THEN
            [raised |-> TRUE, exc |-> fail]
        ELSE
          LET c == Classify(stats1, function_name, stack, options.call_stack)
              dump == DumpArgs(options.dump_args, c.tag, c.stats)
              function_args == IF dump THEN <<args>> ELSE <<>>
              stack_string == IF options.call_stack THEN <<c.call_strings>> ELSE <<>>
          IN  IF dump /\ fail = "repr(args)" THEN
                  [raised |-> TRUE, exc |-> fail]
              ELSE
                  [raised |-> FALSE,
                   line |-> LogMessage(c.tag, c.stats, stack_string, function_args)]

\* mutant: the failure of the phase is dropped without a word
Guarded_silent(attempt) ==
    IF attempt.raised THEN <<>> ELSE <<attempt.line>>

\* try: ... except Exception as trace_exception: logger.warning(...)
Guarded(attempt) ==
    IF attempt.raised THEN <<FailedLine(attempt.exc)>> ELSE <<attempt.line>>

----------------------------------------------------------------------------
(* Calling a function through its wrap layers *)

\* A function is its __name__, its body (what it does with the arguments) and
\* the trace options of the wrappers around it, innermost first.  functools
\* wraps copies __name__, so every layer reports the same name.
Function(name, body, layers) == [name |-> name, body |-> body, layers |-> layers]

RECURSIVE CallFunction(_, _, _, _, _)

\* tracer(*args, **kwargs) for the wrapper with these options around
\* decorated_function, called from the stack `callers` with the clock clk
tracer(options, decorated_function, args, callers, clk, fail) ==
    LET function_name == decorated_function.name
        stats == InitialStats(function_name, clk.start, options)
        call == CallFunction(decorated_function, args,
                             <<TracerCallFrame>> \o callers, clk, fail)
        try == TryTarget(stats, function_name, call.outcome)
        finally == Guarded(FinishingPhase(options, try.stats, function_name, args,
                                          <<TracerFrame>> \o callers, clk.finish, fail))
    IN  [outcome |-> CallerSees(call.outcome, Result(call.outcome)),
         lines |-> call.lines \o try.lines \o finally,
         calls |-> call.calls]

\* f(*args, **kwargs): the outermost wrapper when there is one, else the body
CallFunction(f, args, callers, clk, fail) ==
    IF f.layers = <<>> THEN
        [outcome |-> f.body[args], lines |-> <<>>, calls |-> <<args>>]
    ELSE
        tracer(f.layers[Len(f.layers)],
               Function(f.name, f.body, SubSeq(f.layers, 1, Len(f.layers) - 1)),
               args, callers, clk, fail)

----------------------------------------------------------------------------
(* Inputs *)

Args == { [args |-> <<x>>, kwargs |-> <<>>] : x \in {"a", "b"} }

\* a function that returns its first argument
Echo == [a \in Args |-> Returned(a.args[1])]
\* a function that raises
Raiser(etype, msg) == [a \in Args |-> Raised(etype, msg)]

Targets ==
    { Echo,
      Raiser("TestSkipped", "no network"),
      Raiser("AssertionError", "bad password"),
      Raiser("KeyboardInterrupt", "interrupted") }

FunctionNames == {N_test_a, N_helper}

NoCall ==
    [function_name |-> EmptyName, target |-> Echo,
     args |-> [args |-> <<"a">>, kwargs |-> <<>>],
     stack |-> <<>>, fail |-> "none", layers |-> <<>>]

ClassNames == {"A", "B"}
Undefined == [defined |-> FALSE, parent |-> "object", meta |-> FALSE, dict |-> <<>>]

----------------------------------------------------------------------------
(* Wrapping one function and calling it *)

Init ==
    /\ pc = "idle"
    /\ wrapper = <<>>
    /\ clock = [start |-> MaxTick - 1, finish |-> MaxTick]
    /\ inv = NoCall
    /\ observed = Returned(None)
    /\ targetCalls = <<>>
    /\ log = <<>>
    /\ classes = [c \in ClassNames |-> Undefined]
    /\ applied = [c \in ClassNames |-> 0]

\* trace_function_call(function, dump_args=..., call_stack=...), applied to the
\* function under trace, which is decorated once
trace_function_call(dump_args, call_stack) ==
    /\ pc = "idle"
    /\ wrapper = <<>>
    /\ IF dump_args \notin VALID_TRIGGERS
       THEN /\ observed' = Raised("ValueError", "dump_args invalid")
            /\ UNCHANGED wrapper
       ELSE /\ wrapper' = <<TraceOptions("", "", dump_args, call_stack)>>
            /\ observed' = Returned("tracer")
    /\ UNCHANGED <<pc, clock, inv, targetCalls, log, classes, applied>>

\* a call of function f from the stack `callers`
Invoke(f, args, callers, fail) ==
    LET r == CallFunction(f, args, callers, clock, fail)
    IN  /\ pc' = "returned"
        /\ inv' = [function_name |-> f.name, target |-> f.body, args |-> args,
                   stack |-> callers, fail |-> fail, layers |-> f.layers]
        /\ observed' = r.outcome
        /\ targetCalls' = r.calls
        /\ log' = r.lines

\* the wrapped function is called, with its name, body, arguments, call stack
\* and failing step drawn from the given sets
Call(names, targets, arguments, stacks, fails) ==
    /\ pc = "idle"
    /\ wrapper # <<>>
    /\ \E function_name \in names, target \in targets, args \in arguments,
          callers \in stacks, fail \in fails :
          Invoke(Function(function_name, target, wrapper), args, callers, fail)
    /\ UNCHANGED <<wrapper, clock, classes, applied>>

\* the caller goes on
Return ==
    /\ pc = "returned"
    /\ pc' = "idle"
    /\ inv' = NoCall
    /\ observed' = Returned(None)
    /\ targetCalls' = <<>>
    /\ log' = <<>>
    /\ UNCHANGED <<wrapper, clock, classes, applied>>

Next ==
    \/ \E d \in VALID_TRIGGERS \cup {"bogus"}, cs \in BOOLEAN :
          trace_function_call(d, cs)
    \/ Call(FunctionNames, Targets, Args, CallerStacks, FailSteps)
    \/ Return

Spec == Init /\ [][Next]_vars

----------------------------------------------------------------------------
(* The clock: one wrapped function called at every pair of clock readings *)

ClockReadings ==
    { [start |-> s, finish |-> f] : s \in 0..MaxTick, f \in 0..MaxTick }

InitTime ==
    /\ pc = "idle"
    /\ wrapper = <<TraceOptions("", "", TRIGGER_ON_FAILURE, FALSE)>>
    /\ clock \in { c \in ClockReadings : c.start <= c.finish }
    /\ inv = NoCall
    /\ observed = Returned(None)
    /\ targetCalls = <<>>
    /\ log = <<>>
    /\ classes = [c \in ClassNames |-> Undefined]
    /\ applied = [c \in ClassNames |-> 0]

TimedCall ==
    Call({N_helper}, Targets, Args,
         {<<Frame(<<"home", "lib", "util.py">>, N_helper, 20)>>}, {"none"})

NextTime == TimedCall \/ Return

SpecTime == InitTime /\ [][NextTime]_vars

----------------------------------------------------------------------------
(* Classes: trace_class_methods and the metaclass of get_tracer_metaclass *)

\* An attribute of a class: type is "function" for what types.FunctionType
\* holds (a plain method, or a wrapper around one) and "staticmethod" for a
\* staticmethod object; layers are the wrappers around the original body.
Attribute(type, body, layers) == [type |-> type, body |-> body, layers |-> layers]

\* the class bodies a class statement can have
ClassBodies ==
    { [n \in {N_run, N_init} |-> Attribute("function", Echo, <<>>)],
      [n \in {N_run, N_make} |->
          IF n = N_run
          THEN Attribute("function", Raiser("AssertionError", "bad password"), <<>>)
          ELSE Attribute("staticmethod", Echo, <<>>)] }

\* the options trace_class_methods passes on, with its defaults
BulkOptions(cls_name) == TraceOptions("", cls_name, TRIGGER_ON_FAILURE, TRUE)

\* mutant: names with two leading underscores are wrapped too
Eligible_dunder(name, func) == func.type = "function"

\* isinstance(func, types.FunctionType) and not name.startswith("__")
Eligible(name, func) ==
    func.type = "function" /\ ~StartsWith(name, DunderPrefix)

\* class_decorator(cls): every eligible entry of cls.__dict__ is replaced by a
\* wrapper around it
class_decorator(cls_name, cls) ==
    [cls EXCEPT !.dict =
        [name \in DOMAIN cls.dict |->
            IF Eligible(name, cls.dict[name])
            THEN [cls.dict[name] EXCEPT
                     !.layers = Append(@, BulkOptions(cls_name))]
            ELSE cls.dict[name]]]

Defined(c) == c # "object" /\ classes[c].defined

\* whether a class statement with this base goes through TracerMetaclass
\* without naming it: the metaclass of the base is inherited
InheritsMeta(parent) == parent # "object" /\ classes[parent].meta

\* class c(parent): ... with the ordinary type as metaclass
DefineClass(c, parent, body) ==
    /\ pc = "idle"
    /\ ~classes[c].defined
    /\ parent = "object" \/ Defined(parent)
    /\ ~InheritsMeta(parent)
    /\ classes' = [classes EXCEPT ![c] =
           [defined |-> TRUE, parent |-> parent, meta |-> FALSE, dict |-> body]]
    /\ UNCHANGED <<pc, wrapper, clock, inv, observed, targetCalls, log, applied>>

\* TracerMetaclass.__new__: the class is built, then class_decorator runs on it
TracerMetaclass_new(c, parent, body) ==
    /\ pc = "idle"
    /\ ~classes[c].defined
    /\ parent = "object" \/ Defined(parent)
    /\ classes' = [classes EXCEPT ![c] =
           class_decorator(c,
               [defined |-> TRUE, parent |-> parent, meta |-> TRUE, dict |-> body])]
    /\ applied' = [applied EXCEPT ![c] = @ + 1]
    /\ UNCHANGED <<pc, wrapper, clock, inv, observed, targetCalls, log>>

\* trace_class_methods()(cls) on a class that exists
trace_class_methods(c) ==
    /\ pc = "idle"
    /\ classes[c].defined
    /\ applied[c] < MaxWraps
    /\ classes' = [classes EXCEPT ![c] = class_decorator(c, classes[c])]
    /\ applied' = [applied EXCEPT ![c] = @ + 1]
    /\ UNCHANGED <<pc, wrapper, clock, inv, observed, targetCalls, log>>

RECURSIVE Owner(_, _)
\* attribute lookup along the bases: the class whose __dict__ holds the name,
\* "object" when none does
Owner(c, name) ==
    IF c = "object" THEN "object"
    ELSE IF name \in DOMAIN classes[c].dict THEN c
    ELSE Owner(classes[c].parent, name)

MethodNames == {N_run, N_init, N_make}

MethodCallers ==
    { <<Frame(<<"home", "lib", "util.py">>, N_helper, 20)>>,
      <<Frame(<<"opt", "whelk", "tests", "test_a.py">>, N_test_a, 10)>> }

\* c.name(*args) (or an instance's): the attribute found along the bases is called
CallMethod(c, name, args, callers) ==
    /\ pc = "idle"
    /\ classes[c].defined
    /\ Owner(c, name) # "object"
    /\ LET attr == classes[Owner(c, name)].dict[name]
       IN  Invoke(Function(name, attr.body, attr.layers), args, callers, "none")
    /\ UNCHANGED <<wrapper, clock, classes, applied>>

NextBulk ==
    \/ \E c \in ClassNames, p \in ClassNames \cup {"object"}, b \in ClassBodies :
          DefineClass(c, p, b)
    \/ \E c \in ClassNames, p \in ClassNames \cup {"object"}, b \in ClassBodies :
          TracerMetaclass_new(c, p, b)
    \/ \E c \in ClassNames : trace_class_methods(c)
    \/ \E c \in ClassNames, n \in MethodNames, a \in Args, st \in MethodCallers :
          CallMethod(c, n, a, st)
    \/ Return

SpecBulk == Init /\ [][NextBulk]_vars

----------------------------------------------------------------------------
(* What the properties speak of *)

IsRecordLine(l) == l.kind = "TRACER"
IsFailedLine(l) == l.kind = "TRACER Failed to save call trace"
IsSkippedLine(l) == l.kind = "Skipped"

RecordLines == SelectSeq(log, IsRecordLine)
FailedLines == SelectSeq(log, IsFailedLine)
SkippedLines == SelectSeq(log, IsSkippedLine)

\* a call of the wrapped function has come back to its caller
Called == pc = "returned"
\* what the original function does with the arguments of the call
TargetOutcome == inv.target[inv.args]
TargetSkips == TargetOutcome.kind = "raise" /\ IsTestSkipped(TargetOutcome.etype)
TargetFails == TargetOutcome.kind = "raise" /\ ~IsTestSkipped(TargetOutcome.etype)
OwnNameIsTest == StartsWith(inv.function_name, TestPrefix)
\* the stack the wrapper sees: its own frame, then the callers
FullStack == <<TracerFrame>> \o inv.stack
\* the options of the one wrapper around the function
Options == wrapper[1]

\* a frame one of the three rules of the walk stops at
Matches(frame) ==
    \/ StartsWith(frame.function, TestPrefix)
    \/ frame.function = N_run_cleanups
    \/ frame.function = N_run_setup
MatchDepths == { d \in 0..Len(inv.stack) : Matches(FullStack[d + 1]) }
Nearest == CHOOSE d \in MatchDepths : \A e \in MatchDepths : d <= e

----------------------------------------------------------------------------
(* Properties *)

C2_AnyErrorIsTraceback ==
    (Called /\ TargetFails) =>
        /\ observed = TargetOutcome
        /\ \A i \in 1..Len(RecordLines) :
              /\ RecordLines[i].stats.traceback
              /\ RecordLines[i].stats.msg = TargetOutcome.msg

\* C3 (Skip isolation): when the original function raises the skip signal,
\* whatever its name and the call stack, the record has skipped true,
\* traceback false, msg the message of the signal and the tag skipped_test;
\* one informational line is logged before it and the caller gets the same
\* signal.  No record has traceback and skipped both true.
C3_SkipIsolation ==
    Called =>
        /\ TargetSkips =>
              /\ observed = TargetOutcome
              /\ Len(SkippedLines) = 1
              /\ IsSkippedLine(log[1])
              /\ log[1].level = "info"
              /\ \A i \in 1..Len(RecordLines) :
                    /\ RecordLines[i].stats.skipped
                    /\ ~RecordLines[i].stats.traceback
                    /\ RecordLines[i].stats.msg = TargetOutcome.msg
                    /\ RecordLines[i].tag = "skipped_test"
        /\ \A i \in 1..Len(RecordLines) :
              ~(RecordLines[i].stats.traceback /\ RecordLines[i].stats.skipped)

\* C3 witness: a function with the test prefix raised the skip signal and its
\* record was logged.
C3_Witness ==
    /\ Called
    /\ TargetSkips
    /\ OwnNameIsTest
    /\ Len(RecordLines) = 1
    /\ RecordLines[1].tag = "skipped_test"

\* C4 (Argument capture under never), as claimed: with dump_args never, no
\* record carries the args suffix, whatever the name, stack and outcome.
C4_NeverMeansNever ==
    (Called /\ Options.dump_args = TRIGGER_NEVER) =>
        \A i \in 1..Len(RecordLines) : RecordLines[i].function_args = <<>>

\* C4, amended: with dump_args never, a record carries the args suffix exactly
\* when its tag is test, that is when the function's own name has the test
\* prefix and the call was not skipped; for every policy the suffix is there
\* exactly when the policy is always, or the tag is test, or the policy is
\* on_failure and the record has traceback true and skipped false; and the
\* suffix shows the arguments of the call.
C4_NeverExceptTest ==
    Called =>
        \A i \in 1..Len(RecordLines) :
            LET l == RecordLines[i]
                has_args == l.function_args # <<>>
            IN  /\ Options.dump_args = TRIGGER_NEVER =>
                      (has_args <=> (OwnNameIsTest /\ ~TargetSkips))
                /\ has_args <=>
                      \/ Options.dump_args = TRIGGER_ALWAYS
                      \/ l.tag = "test"
                      \/ /\ Options.dump_args = TRIGGER_ON_FAILURE
                         /\ l.stats.traceback
                         /\ ~l.stats.skipped
                /\ has_args => l.function_args = <<inv.args>>

\* C4 witness: under never, the record of a test function carries its arguments.
C4_Witness ==
    /\ Called
    /\ Options.dump_args = TRIGGER_NEVER
    /\ Len(RecordLines) = 1
    /\ RecordLines[1].function_args = <<inv.args>>

\* C5 (Timing), as claimed: for clock readings s at the start and f at the
\* finish, f >= s, the record has duration >= 0, duration = floor(f - s) and
\* start = floor(s).
C5_DurationIsFloorOfElapsed ==
    Called =>
        \A i \in 1..Len(RecordLines) :
            /\ RecordLines[i].stats.duration >= 0
            /\ RecordLines[i].stats.duration = (clock.finish - clock.start) \div Scale
            /\ RecordLines[i].stats.start = clock.start \div Scale

C7_CalledByAlways ==
    Called =>
        \A i \in 1..Len(RecordLines) :
            RecordLines[i].stats.called_by = FullStack[2].function

\* C7, amended: in every record whose tag is neither test nor skipped_test,
\* wherever the walk stops, called_by is the function of the frame at depth
\* 1; in a record tagged test or skipped_test called_by is empty.
C7_CalledByWhenWalked ==
    Called =>
        \A i \in 1..Len(RecordLines) :
            IF RecordLines[i].tag \in {"test", "skipped_test"}
            THEN RecordLines[i].stats.called_by = EmptyName
            ELSE RecordLines[i].stats.called_by = FullStack[2].function

\* C7 witness: the walk stopped at a test frame at depth 2 and called_by is
\* the helper at depth 1.
C7_Witness ==
    /\ Called
    /\ Len(RecordLines) = 1
    /\ Len(inv.stack) = 2
    /\ inv.stack[1].function = N_helper
    /\ inv.stack[2].function = N_test_a
    /\ RecordLines[1].stats.called_by = N_helper

\* C8 (Test-context classification): for a call that was not skipped: when
\* the function's own name has the test prefix, the tag is test and test and
\* source stay empty, even under a test frame; otherwise, when no frame
\* matches a rule, the tag is other_function and test and source stay empty;
\* otherwise, when the nearest matching frame has the test prefix and is at
\* depth d, test is that frame's function and the tag is test_function for
\* d = 1 and test_subfunction for d > 1.
C8_TestContext ==
    (Called /\ ~TargetSkips) =>
        \A i \in 1..Len(RecordLines) :
            LET l == RecordLines[i] IN
            IF OwnNameIsTest THEN
                l.tag = "test" /\ l.stats.test = EmptyName /\ l.stats.source = NoSource
            ELSE IF MatchDepths = {} THEN
                /\ l.tag = "other_function"
                /\ l.stats.test = EmptyName
                /\ l.stats.source = NoSource
            ELSE
                StartsWith(FullStack[Nearest + 1].function, TestPrefix) =>
                    /\ l.stats.test = FullStack[Nearest + 1].function
                    /\ l.tag = IF Nearest = 1 THEN "test_function"
                               ELSE "test_subfunction"

\* C8 witness: a helper called by a helper called by a test is a
\* test_subfunction of that test.
C8_Witness ==
    /\ Called
    /\ ~OwnNameIsTest
    /\ Len(RecordLines) = 1
    /\ Len(inv.stack) = 2
    /\ inv.stack[1].function = N_helper
    /\ RecordLines[1].tag = "test_subfunction"
    /\ RecordLines[1].stats.test = N_test_a

\* the frames the walk visits: none when there is no walk (tags test and
\* skipped_test), else all up to the nearest matching frame, or all
VisitedFrames ==
    IF TargetSkips \/ OwnNameIsTest THEN <<>>
    ELSE IF MatchDepths = {} THEN FullStack
    ELSE SubSeq(FullStack, 1, Nearest + 1)

NotTracer(frame) == frame.function # N_tracer
Rendered(frames) ==
    [i \in 1..Len(frames) |->
        <<Basename(frames[i].filename), frames[i].function, frames[i].lineno>>]

\* the visited frames without the wrapper's own frame at depth 0
AllButOwnFrame ==
    IF VisitedFrames = <<>> THEN <<>> ELSE Tail(VisitedFrames)

\* C9 (Call-stack capture), as claimed: with call_stack on, the stack list of
\* the record holds, innermost first, one file:function:line entry for every
\* visited frame but the wrapper's own at depth 0; with call_stack off there
\* is no stack suffix.
C9_AllButOwnFrame ==
    Called =>
        \A i \in 1..Len(RecordLines) :
            IF Options.call_stack
            THEN RecordLines[i].stack_string = <<Rendered(AllButOwnFrame)>>
            ELSE RecordLines[i].stack_string = <<>>

\* C9, amended: with call_stack on, the stack list of the record holds,
\* innermost first, one file:function:line entry for every visited frame
\* whose function is not named tracer: the wrapper's own frame at depth 0 is
\* left out, and so is every frame of an enclosing wrapper; for the tags test
\* and skipped_test there is no walk and the list is empty; with call_stack
\* off there is no stack suffix.
C9_AllButTracerFrames ==
    Called =>
        \A i \in 1..Len(RecordLines) :
            IF Options.call_stack
            THEN RecordLines[i].stack_string =
                    <<Rendered(SelectSeq(VisitedFrames, NotTracer))>>
            ELSE RecordLines[i].stack_string = <<>>

\* C9 witness: a call from inside another traced call, with the stack
\* captured: the enclosing wrapper's frame was visited.
C9_Witness ==
    /\ Called
    /\ Options.call_stack
    /\ Len(RecordLines) = 1
    /\ Len(VisitedFrames) = 3
    /\ VisitedFrames[3].function = N_tracer
    /\ Len(RecordLines[1].stack_string[1]) = 1


\* the wrap layers an attribute of class c has to have
ExpectedLayers(c, name) ==
    IF /\ classes[c].dict[name].type = "function"
       /\ ~StartsWith(name, DunderPrefix)
    THEN applied[c]
    ELSE 0

\* the wrap counts in one state
WrapCounts ==
    /\ \A c \in ClassNames :
          classes[c].defined =>
              /\ \A name \in DOMAIN classes[c].dict :
                    Len(classes[c].dict[name].layers) = ExpectedLayers(c, name)
              /\ classes[c].meta => applied[c] >= 1
    /\ (Called /\ inv.fail = "none") => Len(RecordLines) = Len(inv.layers)

\* a step changes a class that exists only by applying class_decorator to it
OnlyTheClassApplied ==
    \A c \in ClassNames :
        (classes[c].defined /\ applied'[c] = applied[c]) => classes'[c] = classes[c]

\* C10 (Bulk application wrap count): after any sequence of class definitions,
\* with and without the metaclass, and of applications of class_decorator, an
\* attribute of a class has as many wrap layers as class_decorator was applied
\* to that very class when it is a function whose name does not start with
\* two underscores, and none otherwise; a class built through the metaclass
\* has had class_decorator applied; defining or decorating a class leaves
\* every other class as it was; and a call of a method with k layers logs k
\* records, two after two applications.
C10_WrapCount == [](WrapCounts) /\ [][OnlyTheClassApplied]_vars

\* C10 witness: B is a subclass of A, class_decorator ran twice on A and once
\* on B, and a call of a method with two layers has logged two records.
C10_Witness ==
    /\ Called
    /\ classes["B"].defined
    /\ classes["B"].parent = "A"
    /\ applied["A"] = 2
    /\ applied["B"] = 1
    /\ Len(inv.layers) = 2
    /\ Len(RecordLines) = 2

====
